---- MODULE Spec2Model ----
(***************************************************************************)
(* Signaling server of the video-conferencing repository                   *)
(* (server/src/index.ts): the peers registry, the global producers map,    *)
(* the per-socket message handlers with their suspension points (await on  *)
(* the media engine), the close handler, and the messages the server       *)
(* sends.                                                                  *)
(*                                                                         *)
(* Node.js runs each handler synchronously up to its next await, so every  *)
(* action below is one such run-to-completion segment: a handler that      *)
(* awaits an engine call is split into the segment that issues the call    *)
(* (the handler is then kept in `handlers`) and the segment that runs when *)
(* the engine's promise settles.  The runtime is taken to define the       *)
(* global WebSocket whose OPEN equals ws's OPEN (index.ts:141), and so to   *)
(* end the process on an unhandled promise rejection.                      *)
(*                                                                         *)
(* The page (src/app/stream/page.tsx) is modelled by its request/reply     *)
(* bookkeeping: the requestQueue map, the timeout of each request and the  *)
(* onmessage dispatch.  The file holds two versions of the page, which     *)
(* differ in the envelope key that carries the correlation id (requestId   *)
(* in the first, id in the second); the server reads requestId.  Spec is   *)
(* the server with the pages of the first version, whose requestId it      *)
(* reads; SpecClient is one page of either version with the server         *)
(* reduced to the envelope it parses and the replies it sends.  SpecSetup   *)
(* is the page's handleRouterRtpCapabilities with the queue of pending     *)
(* producers; SpecFanout is the server's connection, produce and close     *)
(* handlers over a third socket, with the new-producer events of each      *)
(* socket counted.                                                         *)
(*                                                                         *)
(* The egress bridge is not part of the sources at hand (only its          *)
(* plainTransport configuration and the page that plays its output are);   *)
(* SpecEgress follows its description: a state machine Idle, Provisioning, *)
(* Active driven by the size of the producers map.                         *)
(***************************************************************************)
EXTENDS Integers, FiniteSets, Sequences, TLC

\* ---------------------------------------------------------------- bounds
MaxSockets    == 2
NumPeerIds    == 2
MaxTransports == 2
MaxProducers  == 2
MaxConsumers  == 1
MaxHandlers   == 2
MaxRequests   == 3
MaxFanoutSockets == 3
MaxWatchRetries == 20

\* the watch page's limit on retries of the availability check
MaxRetries == 10

\* the sockets and peerIds of the widest specification (SpecFanout); in the
\* other specifications only CoreSockets connect, with a peerId of CorePeerIds
Sockets      == 1..MaxFanoutSockets
CoreSockets  == 1..MaxSockets
PeerIds      == 1..MaxFanoutSockets
CorePeerIds  == 1..NumPeerIds
TransportIds == 1..MaxTransports
ProducerIds  == 1..MaxProducers
ConsumerIds  == 1..MaxConsumers
RequestIds   == 1..MaxRequests

\* "no value": undefined in the source
None == 0

\* the two places of the page that call produceMedia
Callers == {"handler", "effect"}

VARIABLES
    readyState,     \* socket -> "NONE" (not yet connected) | "OPEN" |
                    \* "CLOSING" (close frame seen, 'close' not yet emitted) |
                    \* "CLOSED"
    sockPeerId,     \* socket -> the peerId const of its connection closure
    peerState,      \* socket -> the PeerState record created by its connection
    peers,          \* the peers map: peerId -> the socket whose record is stored
    producers,      \* key set of the global producers map
    engTransports,  \* engine: sequence of transports, index = transport id
    engProducers,   \* engine: sequence of producers, index = producer id
    engConsumers,   \* engine: sequence of consumers, index = consumer id
    handlers,       \* message handlers suspended on an engine call
    out,            \* the messages the last step handed to an OPEN socket's
                    \* send, each with the number of times it was sent
    last,           \* the event the last step handled: its kind, its socket
                    \* and the data of the message (or the handler resumed)
    alive,          \* the server process is running
    envelopeKey,    \* page: the envelope key carrying the correlation id
    wsState,        \* page: readyState of its WebSocket
    requestQueue,   \* page: key set of the requestQueue map
    timers,         \* page: request ids whose timeout is armed
    promises,       \* page: request id -> state of the promise request()
                    \* returned and the number of resolve/reject calls on it
    toServer,       \* envelopes the page sent, not yet handled by the server
    toClient,       \* messages the server sent, not yet delivered to the page
    dispatch,       \* page: how onmessage routed the last message
    setupPc,        \* page: where handleRouterRtpCapabilities stands
    deviceRef,      \* page: deviceRef.current is set
    sendTransportRef, \* page: sendTransportRef.current is set
    recvTransportRef, \* page: recvTransportRef.current is set
    isDeviceReady,  \* page: the isDeviceReady state
    producersRef,   \* page: key set of producersRef.current
    pendingProducers, \* page: the pendingProducers array
    loopIndex,      \* page: index of the pending producer being consumed
    announcedIds,   \* producer ids the page has been sent a new-producer for
    queuedEver,     \* producer ids the page has pushed on pendingProducers
    consumeRequested, \* producer id -> number of consume requests issued
    announced,      \* socket -> producer id -> number of new-producer events
                    \* sent on the socket since it connected
    producedBy,     \* producer id -> the socket whose produce request made it
    bridge,         \* egress bridge: "Idle" | "Provisioning" | "Active"
    egressSessions, \* the Egress Sessions alive, each named by its cycle
    pipedProducerIds, \* egress: producer ids routed into the pipeline
    pipeCount,      \* producer id -> number of times it was piped
    provisions,     \* number of provisioning cycles started
    teardowns,      \* number of teardowns run
    transcoderHandle, \* egress: the transcoder process, None when there is none
    spawned,        \* number of transcoder processes spawned
    inbox,          \* socket -> the consume replies and consumer-closed
                    \* events sent on it that its page has not yet handled
    consuming,      \* socket -> the consumers whose handleConsumed awaits
                    \* transport.consume on its page
    remoteStreams,  \* socket -> the remoteStreams state of its page
    streamStatus,   \* watch page: the streamStatus state
    retryCount,     \* watch page: the retryCount state
    initPlayerRetryCount, \* watch page: retryCount as seen by the initPlayer
                    \* that is running (the value of the render that made it)
    watchPc,        \* watch page: "mount" | "check" | "timer" | "idle"
    hlsRef,         \* watch page: hlsRef.current is set
    retries,        \* watch page: retries scheduled since the last start
    localStream,    \* page: the localStream state is set
    handlerLocalStream, \* page: localStream as seen by the handlers of the
                    \* socket (the value of the render that ran connectSocket)
    mediaPc,        \* page: "button" | "getUserMedia" | "connected"
    effectDeps,     \* page: [localStream, isDeviceReady] of the last run of
                    \* the effect that produces
    producing,      \* page: the callers whose produceMedia is in flight
    produced        \* page: caller -> number of produceMedia calls that went
                    \* on to produce the tracks, within the connection

svars == <<readyState, sockPeerId, peerState, peers, producers, engTransports,
           engProducers, engConsumers, handlers, out, last, alive>>

cvars == <<envelopeKey, wsState, requestQueue, timers, promises, toServer,
           toClient, dispatch>>

pvars == <<setupPc, deviceRef, sendTransportRef, recvTransportRef, isDeviceReady,
           producersRef, pendingProducers, loopIndex, announcedIds, queuedEver,
           consumeRequested>>

fvars == <<announced, producedBy>>

evars == <<bridge, egressSessions, pipedProducerIds, pipeCount, provisions,
           teardowns, transcoderHandle, spawned>>

rvars == <<inbox, consuming, remoteStreams>>

wvars == <<streamStatus, retryCount, initPlayerRetryCount, watchPc, hlsRef, retries>>

mvars == <<localStream, handlerLocalStream, mediaPc, effectDeps, producing, produced>>

vars == <<svars, cvars, pvars, fvars, evars, rvars, wvars, mvars>>

\* ---------------------------------------------------------------- helpers

\* new PeerState: three empty maps (key sets)
NewPeerState == [transports |-> {}, producers |-> {}, consumers |-> {}]

\* an event of the server: a connection, a message (op = the message's event
\* name), the settling of an awaited engine call, a close, a notification
Event(op, socket, id, data) ==
    [op |-> op, socket |-> socket, id |-> id, data |-> data]

\* the envelope keys of the two versions of the page
EnvelopeKeys == {"requestId", "id"}

\* JSON.stringify({ event, data, requestId }) / ({ event, data, id: requestId })
\* in request(): the correlation id goes under the page's envelope key
PageEnvelope(event, id) ==
    IF envelopeKey = "requestId"
    THEN [event |-> event, data |-> <<>>, requestId |-> id]
    ELSE [event |-> event, data |-> <<>>, id |-> id]

\* destructuring key k from a parsed JSON object: undefined when absent
Field(m, k) == IF k \in DOMAIN m THEN m[k] ELSE None

\* const { event, data, requestId } = JSON.parse(message.toString())
ParsedRequestId(envelope) == Field(envelope, "requestId")

\* nothing sent
NoMessages == <<>>

Msg(to, event, data, requestId) ==
    [to |-> to, event |-> event, data |-> data, requestId |-> requestId]

\* socket.send(JSON.stringify(m)) on socket m.to: ws drops a message sent
\* on a socket that is not OPEN when no callback is given.
SocketSend(bag, rs, m) ==
    IF rs[m.to] = "OPEN"
    THEN IF m \in DOMAIN bag
         THEN [bag EXCEPT ![m] = @ + 1]
         ELSE bag @@ (m :> 1)
    ELSE bag

RECURSIVE SendAll(_, _, _)
SendAll(bag, rs, ms) ==
    IF ms = {} THEN bag
    ELSE LET m == CHOOSE x \in ms : TRUE
         IN SendAll(SocketSend(bag, rs, m), rs, ms \ {m})

\* number of times message m occurs in a bag of sent messages
CountIn(bag, m) == IF m \in DOMAIN bag THEN bag[m] ELSE 0

\* number of times message m was sent in the last step
Count(m) == CountIn(out, m)

NewProducer(to, producerId) == Msg(to, "new-producer", <<"producerId", producerId>>, None)

\* findProducerPeer as evaluated on registry pm and records ps
FindProducerPeerIn(pm, ps, producerId) ==
    LET owners == {p \in PeerIds : pm[p] # None /\ producerId \in ps[pm[p]].producers}
    IN IF owners = {} THEN None ELSE CHOOSE p \in owners : TRUE

findProducerPeer(producerId) == FindProducerPeerIn(peers, peerState, producerId)

\* ---------------------------------------------------------------- initial state
ServerInit ==
    /\ alive = TRUE
    /\ readyState = [s \in Sockets |-> "NONE"]
    /\ sockPeerId = [s \in Sockets |-> None]
    /\ peerState = [s \in Sockets |-> NewPeerState]
    /\ peers = [p \in PeerIds |-> None]
    /\ producers = {}
    /\ engTransports = <<>>
    /\ engProducers = <<>>
    /\ engConsumers = <<>>
    /\ handlers = {}
    /\ out = NoMessages
    /\ last = Event("init", None, None, <<>>)

\* the page after its socket opened: no request issued yet
PageInit ==
    /\ wsState = "OPEN"
    /\ requestQueue = {}
    /\ timers = {}
    /\ promises = [r \in RequestIds |-> [state |-> "unused", settled |-> 0]]
    /\ toServer = {}
    /\ toClient = {}
    /\ dispatch = [routes |-> {}, event |-> "none", requestId |-> None]

\* the refs and state of the page before routerRtpCapabilities arrives
SetupInit ==
    /\ setupPc = "idle"
    /\ deviceRef = FALSE
    /\ sendTransportRef = FALSE
    /\ recvTransportRef = FALSE
    /\ isDeviceReady = FALSE
    /\ producersRef = {}
    /\ pendingProducers = <<>>
    /\ loopIndex = 0
    /\ announcedIds = {}
    /\ queuedEver = {}
    /\ consumeRequested = [p \in ProducerIds |-> 0]

\* nothing announced, nothing produced
FanoutInit ==
    /\ announced = [s \in Sockets |-> [p \in ProducerIds |-> 0]]
    /\ producedBy = [p \in ProducerIds |-> None]

\* the egress bridge before the first producer
EgressInit ==
    /\ bridge = "Idle"
    /\ egressSessions = {}
    /\ pipedProducerIds = {}
    /\ pipeCount = [p \in ProducerIds |-> 0]
    /\ provisions = 0
    /\ teardowns = 0
    /\ transcoderHandle = None
    /\ spawned = 0

\* the pages show no remote stream
StreamsInit ==
    /\ inbox = [s \in Sockets |-> <<>>]
    /\ consuming = [s \in Sockets |-> {}]
    /\ remoteStreams = [s \in Sockets |-> {}]

\* the watch page after its first render: the mount effect armed its timer
WatchInit ==
    /\ streamStatus = "loading"
    /\ retryCount = 0
    /\ initPlayerRetryCount = 0
    /\ watchPc = "mount"
    /\ hlsRef = FALSE
    /\ retries = 0

\* the page after its first render: the start button is shown and the
\* effects ran once
MediaInit ==
    /\ localStream = FALSE
    /\ handlerLocalStream = FALSE
    /\ mediaPc = "button"
    /\ effectDeps = <<FALSE, FALSE>>
    /\ producing = {}
    /\ produced = [c \in Callers |-> 0]

\* the parts of the state that are the same at the start of every specification
RestInit == FanoutInit /\ EgressInit /\ StreamsInit /\ WatchInit /\ MediaInit

\* the server with pages of the first version (envelope key requestId)
Init ==
    ServerInit /\ PageInit /\ SetupInit /\ RestInit /\
    envelopeKey = "requestId"

\* the server with pages of the second version (envelope key id)
InitIdEnvelope ==
    ServerInit /\ PageInit /\ SetupInit /\ RestInit /\
    envelopeKey = "id"

\* one page of either version before its start button is pressed: it has
\* no socket yet
InitSetup ==
    /\ ServerInit /\ SetupInit /\ RestInit
    /\ envelopeKey \in EnvelopeKeys
    /\ wsState = "NONE"
    /\ requestQueue = {}
    /\ timers = {}
    /\ promises = [r \in RequestIds |-> [state |-> "unused", settled |-> 0]]
    /\ toServer = {}
    /\ toClient = {}
    /\ dispatch = [routes |-> {}, event |-> "none", requestId |-> None]

\* one page of either version
InitClient ==
    ServerInit /\ PageInit /\ SetupInit /\ RestInit /\
    envelopeKey \in EnvelopeKeys

\* ---------------------------------------------------------------- connection

\* a backfill that looks owners up in the registry as it was before peers.set
BackfillBeforeSet(s, peerId, pm, ps) ==
    {Msg(s, "new-producer", <<"producerId", p>>, None) :
        p \in {q \in producers : FindProducerPeerIn(peers, ps, q) # peerId}}

\* the backfill loop of the connection handler, run after peers.set
Backfill(s, peerId, pm, ps) ==
    {Msg(s, "new-producer", <<"producerId", p>>, None) :
        p \in {q \in producers : FindProducerPeerIn(pm, ps, q) # peerId}}

\* wss.on('connection'): sockets connect in index order; the peerId is the
\* client's sub-protocol string, any value the client chooses (a new
\* value is the next unused one).
Connection(s, peerId) ==
    /\ readyState[s] = "NONE"
    /\ last' = Event("connection", s, None, <<peerId>>)
    /\ \A t \in Sockets : t < s => readyState[t] # "NONE"
    /\ \A q \in PeerIds : q < peerId => \E t \in Sockets : sockPeerId[t] = q
    /\ LET rs == [readyState EXCEPT ![s] = "OPEN"]
           ps == [peerState EXCEPT ![s] = NewPeerState]
           pm == [peers EXCEPT ![peerId] = s]
       IN /\ readyState' = rs
          /\ sockPeerId' = [sockPeerId EXCEPT ![s] = peerId]
          /\ peerState' = ps
          /\ peers' = pm
          /\ out' = SendAll(NoMessages, rs, Backfill(s, peerId, pm, ps))
    /\ UNCHANGED <<producers, engTransports, engProducers, engConsumers, handlers>>

\* ---------------------------------------------------------------- message handlers

\* const peerState = peers.get(peerId), as the handler of socket s reads it
PeerStateOf(s) == peers[sockPeerId[s]]

\* a lookup that finds a transport created for any peer
TransportOfAnyPeer(s, transportId) == transportId \in 1..Len(engTransports)

\* peerState?.transports.get(transportId) finds a transport
HasTransport(s, transportId) == transportId \in peerState[PeerStateOf(s)].transports

\* a message can be received: the socket is open
CanReceive(s) == readyState[s] = "OPEN"

\* the correlation id of an incoming message: the page generates one per
\* call, distinct from those of its requests still in flight
NewRequestId ==
    CHOOSE n \in 1..(MaxHandlers + 1) :
        /\ n \notin {h.id : h \in handlers}
        /\ \A k \in 1..(n - 1) : k \in {h.id : h \in handlers}

\* the requestId the handler of that message reads from its envelope
ReceivedRequestId == ParsedRequestId(PageEnvelope("", NewRequestId))

\* the handler suspends on an engine call (await)
Suspend(s, event, arg, arg2) ==
    /\ Cardinality(handlers) < MaxHandlers
    /\ handlers' = handlers \cup
          {[socket |-> s, event |-> event, id |-> NewRequestId,
            requestId |-> ReceivedRequestId,
            peerState |-> PeerStateOf(s), arg |-> arg, arg2 |-> arg2]}
    /\ out' = NoMessages

\* the catch block: the error event goes to the handler's own socket
Throw(s, text, id, requestId) ==
    out' = SocketSend(NoMessages, readyState, Msg(s, "error", <<text, id>>, requestId))

\* the send closure of a handler
Reply(s, event, data, requestId) ==
    out' = SocketSend(NoMessages, readyState, Msg(s, event, data, requestId))

\* case 'getRouterRtpCapabilities'
GetRouterRtpCapabilities(s) ==
    /\ CanReceive(s)
    /\ last' = Event("getRouterRtpCapabilities", s, NewRequestId, <<>>)
    /\ Reply(s, "routerRtpCapabilities", <<"rtpCapabilities", 0>>, ReceivedRequestId)
    /\ UNCHANGED <<readyState, sockPeerId, peerState, peers, producers,
                   engTransports, engProducers, engConsumers, handlers>>

\* transports the engine has been asked for or has created
TransportsClaimed ==
    Len(engTransports) + Cardinality({h \in handlers : h.event = "createWebRtcTransport"})
\* producers the engine has been asked for or has created
ProducersClaimed ==
    Len(engProducers) + Cardinality({h \in handlers : h.event = "produce"})
\* consumers the engine has been asked for or has created
ConsumersClaimed ==
    Len(engConsumers) + Cardinality({h \in handlers : h.event = "consume"})

\* case 'createWebRtcTransport', up to the await
CreateWebRtcTransport(s) ==
    /\ CanReceive(s)
    /\ last' = Event("createWebRtcTransport", s, NewRequestId, <<>>)
    /\ IF PeerStateOf(s) = None
       THEN /\ Throw(s, "Peer state not found", 0, ReceivedRequestId)
            /\ UNCHANGED handlers
       ELSE /\ TransportsClaimed < MaxTransports
            /\ Suspend(s, "createWebRtcTransport", 0, 0)
    /\ UNCHANGED <<readyState, sockPeerId, peerState, peers, producers,
                   engTransports, engProducers, engConsumers>>

\* case 'createWebRtcTransport', after the await
CreateWebRtcTransportResolved(h) ==
    /\ h \in handlers /\ h.event = "createWebRtcTransport"
    /\ last' = Event("resolved", h.socket, h.id, <<>>)
    /\ LET id == Len(engTransports) + 1
       IN /\ engTransports' = Append(engTransports, [closed |-> FALSE])
          /\ peerState' = [peerState EXCEPT ![h.peerState].transports = @ \cup {id}]
          /\ Reply(h.socket, "createWebRtcTransport", <<"id", id>>, h.requestId)
    /\ handlers' = handlers \ {h}
    /\ UNCHANGED <<readyState, sockPeerId, peers, producers, engProducers,
                   engConsumers>>

\* case 'connectWebRtcTransport', up to the await
ConnectWebRtcTransport(s, transportId) ==
    /\ CanReceive(s)
    /\ last' = Event("connectWebRtcTransport", s, NewRequestId, <<transportId>>)
    /\ IF PeerStateOf(s) = None
       THEN /\ Throw(s, "Peer state not found", 0, ReceivedRequestId)
            /\ UNCHANGED handlers
       ELSE IF ~HasTransport(s, transportId)
       THEN /\ Throw(s, "Transport not found", transportId, ReceivedRequestId)
            /\ UNCHANGED handlers
       ELSE Suspend(s, "connectWebRtcTransport", transportId, 0)
    /\ UNCHANGED <<readyState, sockPeerId, peerState, peers, producers,
                   engTransports, engProducers, engConsumers>>

\* case 'connectWebRtcTransport', after the await
ConnectWebRtcTransportResolved(h) ==
    /\ h \in handlers /\ h.event = "connectWebRtcTransport"
    /\ last' = Event("resolved", h.socket, h.id, <<>>)
    /\ Reply(h.socket, "connectWebRtcTransport", <<"transportId", h.arg>>, h.requestId)
    /\ handlers' = handlers \ {h}
    /\ UNCHANGED <<readyState, sockPeerId, peerState, peers, producers,
                   engTransports, engProducers, engConsumers>>

\* case 'produce', up to the await
Produce(s, transportId) ==
    /\ CanReceive(s)
    /\ last' = Event("produce", s, NewRequestId, <<transportId>>)
    /\ IF PeerStateOf(s) = None
       THEN /\ Throw(s, "Peer state not found", 0, ReceivedRequestId)
            /\ UNCHANGED handlers
       ELSE IF ~HasTransport(s, transportId)
       THEN /\ Throw(s, "Transport not found", transportId, ReceivedRequestId)
            /\ UNCHANGED handlers
       ELSE /\ ProducersClaimed < MaxProducers
            /\ Suspend(s, "produce", transportId, 0)
    /\ UNCHANGED <<readyState, sockPeerId, peerState, peers, producers,
                   engTransports, engProducers, engConsumers>>

\* a forEach whose send throws on the first client that is not open, so
\* that the clients after it are not reached
BroadcastUntilDead(s) ==
    {c \in Sockets :
        /\ c # s /\ readyState[c] = "OPEN"
        /\ \A d \in Sockets \ {s} :
              d < c => readyState[d] \notin {"CLOSING", "CLOSED"}}

\* a fan-out that leaves out the sender by peerId instead of by socket
BroadcastTargetsByPeerId(s) ==
    {c \in Sockets : sockPeerId[c] # sockPeerId[s] /\ readyState[c] = "OPEN"}

\* wss.clients.forEach: every client other than the sender that is OPEN
BroadcastTargets(s) == {c \in Sockets : c # s /\ readyState[c] = "OPEN"}

\* case 'produce', after the await: attach, insert, broadcast, reply
ProduceResolved(h) ==
    /\ h \in handlers /\ h.event = "produce"
    /\ last' = Event("resolved", h.socket, h.id, <<>>)
    /\ LET id == Len(engProducers) + 1
           fanout == {Msg(c, "new-producer", <<"producerId", id>>, None) :
                         c \in BroadcastTargets(h.socket)}
       IN /\ engProducers' = Append(engProducers, [transport |-> h.arg, closed |-> FALSE])
          /\ peerState' = [peerState EXCEPT ![h.peerState].producers = @ \cup {id}]
          /\ producers' = producers \cup {id}
          /\ out' = SocketSend(SendAll(NoMessages, readyState, fanout), readyState,
                                Msg(h.socket, "produce", <<"id", id>>, h.requestId))
    /\ handlers' = handlers \ {h}
    /\ UNCHANGED <<readyState, sockPeerId, peers, engTransports, engConsumers>>

\* router.canConsume: the producer is known to the router and the
\* capabilities match its codecs (capsOk is the client's rtpCapabilities)
canConsume(producerId, capsOk) == ~engProducers[producerId].closed /\ capsOk

\* case 'consume', up to the await
Consume(s, transportId, producerId, capsOk) ==
    /\ CanReceive(s)
    /\ last' = Event("consume", s, NewRequestId, <<transportId, producerId, IF capsOk THEN 1 ELSE 0>>)
    /\ IF PeerStateOf(s) = None
       THEN /\ Throw(s, "Peer state not found", 0, ReceivedRequestId)
            /\ UNCHANGED handlers
       ELSE IF ~HasTransport(s, transportId)
       THEN /\ Throw(s, "Transport not found", transportId, ReceivedRequestId)
            /\ UNCHANGED handlers
       ELSE IF producerId \notin producers
       THEN /\ Throw(s, "Producer not found", producerId, ReceivedRequestId)
            /\ UNCHANGED handlers
       ELSE IF findProducerPeer(producerId) = sockPeerId[s]
       THEN UNCHANGED handlers /\ out' = NoMessages
       ELSE IF ~canConsume(producerId, capsOk)
       THEN /\ Throw(s, "Cannot consume producer", producerId, ReceivedRequestId)
            /\ UNCHANGED handlers
       ELSE /\ ConsumersClaimed < MaxConsumers
            /\ Suspend(s, "consume", transportId, producerId)
    /\ UNCHANGED <<readyState, sockPeerId, peerState, peers, producers,
                   engTransports, engProducers, engConsumers>>

\* case 'consume', after the await: the consumer is created paused
ConsumeResolved(h) ==
    /\ h \in handlers /\ h.event = "consume"
    /\ last' = Event("resolved", h.socket, h.id, <<>>)
    /\ LET id == Len(engConsumers) + 1
       IN /\ engConsumers' = Append(engConsumers,
                [producerId |-> h.arg2, transport |-> h.arg, socket |-> h.socket,
                 paused |-> TRUE, closed |-> FALSE])
          /\ peerState' = [peerState EXCEPT ![h.peerState].consumers = @ \cup {id}]
          /\ Reply(h.socket, "consume", <<"id", id>>, h.requestId)
    /\ handlers' = handlers \ {h}
    /\ UNCHANGED <<readyState, sockPeerId, peers, producers, engTransports,
                   engProducers>>

\* case 'resume-consumer', up to the await
ResumeConsumer(s, consumerId) ==
    /\ CanReceive(s)
    /\ last' = Event("resume-consumer", s, NewRequestId, <<consumerId>>)
    /\ IF PeerStateOf(s) = None
       THEN /\ Throw(s, "Peer state not found", 0, ReceivedRequestId)
            /\ UNCHANGED handlers
       ELSE IF consumerId \notin peerState[PeerStateOf(s)].consumers
       THEN /\ Throw(s, "Consumer not found", consumerId, ReceivedRequestId)
            /\ UNCHANGED handlers
       ELSE Suspend(s, "resume-consumer", consumerId, 0)
    /\ UNCHANGED <<readyState, sockPeerId, peerState, peers, producers,
                   engTransports, engProducers, engConsumers>>

\* case 'resume-consumer', after the await
ResumeConsumerResolved(h) ==
    /\ h \in handlers /\ h.event = "resume-consumer"
    /\ last' = Event("resolved", h.socket, h.id, <<>>)
    /\ engConsumers' = [engConsumers EXCEPT ![h.arg].paused = FALSE]
    /\ Reply(h.socket, "resume-consumer", <<"consumerId", h.arg>>, h.requestId)
    /\ handlers' = handlers \ {h}
    /\ UNCHANGED <<readyState, sockPeerId, peerState, peers, producers,
                   engTransports, engProducers>>

\* the awaited engine call rejects: the catch block sends the error event
EngineRejected(h) ==
    /\ h \in handlers
    /\ last' = Event("rejected", h.socket, h.id, <<>>)
    /\ Throw(h.socket, "engine error", 0, h.requestId)
    /\ handlers' = handlers \ {h}
    /\ UNCHANGED <<readyState, sockPeerId, peerState, peers, producers,
                   engTransports, engProducers, engConsumers>>

\* a default case that closes the socket of the message
UnknownEventClosesSocket(s) ==
    /\ CanReceive(s)
    /\ last' = Event("unknown", s, NewRequestId, <<>>)
    /\ out' = NoMessages
    /\ readyState' = [readyState EXCEPT ![s] = "CLOSED"]
    /\ UNCHANGED <<sockPeerId, peerState, peers, producers,
                   engTransports, engProducers, engConsumers, handlers>>

\* default case: an event name the switch does not know is logged; the
\* peerState check before the switch still applies
UnknownEvent(s) ==
    /\ CanReceive(s)
    /\ last' = Event("unknown", s, NewRequestId, <<>>)
    /\ IF PeerStateOf(s) = None
       THEN Throw(s, "Peer state not found", 0, ReceivedRequestId)
       ELSE out' = NoMessages
    /\ UNCHANGED <<readyState, sockPeerId, peerState, peers, producers,
                   engTransports, engProducers, engConsumers, handlers>>

\* a message that is not JSON: JSON.parse throws at the top of the try
\* block; the catch block parses the message again while building the error
\* event, which throws before socket.send is called, so the async handler
\* rejects with nothing to handle the rejection and the process ends.
Malformed(s) ==
    /\ CanReceive(s)
    /\ last' = Event("malformed", s, None, <<>>)
    /\ out' = NoMessages
    /\ alive' = FALSE
    /\ UNCHANGED <<readyState, sockPeerId, peerState, peers, producers,
                   engTransports, engProducers, engConsumers, handlers>>

\* a 'died' listener that logs and lets the server run on
WorkerDiedLogsOnly ==
    /\ last' = Event("workerdied", None, None, <<>>)
    /\ out' = NoMessages
    /\ alive' = alive
    /\ UNCHANGED <<readyState, sockPeerId, peerState, peers, producers,
                   engTransports, engProducers, engConsumers, handlers>>

\* worker.on('died'): process.exit(1) inside the listener ends the process
\* before any other callback runs; the handlers suspended on the engine are
\* never resumed
WorkerDied ==
    /\ last' = Event("workerdied", None, None, <<>>)
    /\ out' = NoMessages
    /\ alive' = FALSE
    /\ UNCHANGED <<readyState, sockPeerId, peerState, peers, producers,
                   engTransports, engProducers, engConsumers, handlers>>

\* ---------------------------------------------------------------- close

\* a cleanup that takes the producers of every record made under the peerId
ProducersOfPeerId(s) ==
    UNION {peerState[t].producers : t \in {u \in Sockets : sockPeerId[u] = sockPeerId[s]}}

\* a cleanup that reads the record through peers.get(peerId)
RegisteredProducersOf(s) ==
    IF PeerStateOf(s) = None THEN {} ELSE peerState[PeerStateOf(s)].producers

\* peerState.producers of the close handler: the record of its own closure
ClosureProducersOf(s) == peerState[s].producers

\* the client's close frame arrives: ws sets readyState to CLOSING and
\* delivers no further message; 'close' is emitted once the TCP socket ends
Closing(s) ==
    /\ readyState[s] = "OPEN"
    /\ last' = Event("closing", s, None, <<>>)
    /\ readyState' = [readyState EXCEPT ![s] = "CLOSING"]
    /\ out' = NoMessages
    /\ UNCHANGED <<sockPeerId, peerState, peers, producers, engTransports,
                   engProducers, engConsumers, handlers>>

\* socket.on('close'): uses the closure's peerState record and peerId
Close(s) ==
    /\ readyState[s] \in {"OPEN", "CLOSING"}
    /\ last' = Event("close", s, None, <<>>)
    /\ LET rs == [readyState EXCEPT ![s] = "CLOSED"]
           mine == peerState[s]
           \* transport.close() closes the consumers on it: 'transportclose'
           hit == {c \in 1..Len(engConsumers) :
                     /\ ~engConsumers[c].closed
                     /\ engConsumers[c].transport \in mine.transports}
       IN /\ readyState' = rs
          /\ producers' = producers \ ClosureProducersOf(s)
          /\ engProducers' = [p \in 1..Len(engProducers) |->
                IF p \in ClosureProducersOf(s) \/ engProducers[p].transport \in mine.transports
                THEN [engProducers[p] EXCEPT !.closed = TRUE]
                ELSE engProducers[p]]
          /\ engTransports' = [t \in 1..Len(engTransports) |->
                IF t \in mine.transports
                THEN [engTransports[t] EXCEPT !.closed = TRUE]
                ELSE engTransports[t]]
          /\ engConsumers' = [c \in 1..Len(engConsumers) |->
                IF c \in hit
                THEN [engConsumers[c] EXCEPT !.closed = TRUE]
                ELSE engConsumers[c]]
          /\ out' = SendAll(NoMessages, rs,
                {Msg(engConsumers[c].socket, "consumer-closed", <<"consumerId", c>>, None) :
                    c \in hit})
          /\ peers' = [peers EXCEPT ![sockPeerId[s]] = None]
    /\ UNCHANGED <<sockPeerId, peerState, handlers>>

\* the engine's 'producerclose' notification reaches a consumer
ProducerClose(c) ==
    /\ c \in 1..Len(engConsumers)
    /\ ~engConsumers[c].closed
    /\ engProducers[engConsumers[c].producerId].closed
    /\ engConsumers' = [engConsumers EXCEPT ![c].closed = TRUE]
    /\ last' = Event("producerclose", engConsumers[c].socket, None, <<c>>)
    /\ out' = SocketSend(NoMessages, readyState,
                  Msg(engConsumers[c].socket, "consumer-closed", <<"consumerId", c>>, None))
    /\ UNCHANGED <<readyState, sockPeerId, peerState, peers, producers,
                   engTransports, engProducers, handlers>>

\* ---------------------------------------------------------------- egress bridge

\* a bridge that provisions on every add
ProvisionOnEveryAdd(before, after) == after \ before # {}

\* the directory went from no producer to at least one
ShouldProvision(before, after) == before = {} /\ after # {}

\* a bridge that tears down only a pipeline that is Active
TeardownOnlyWhenActive(before, after) ==
    before # {} /\ after = {} /\ bridge = "Active"

\* the directory went from at least one producer to none
ShouldTeardown(before, after) == before # {} /\ after = {}

\* a provisioning that pipes only one producer of the directory
FirstKnownProducer(dir) ==
    IF dir = {} THEN {} ELSE {CHOOSE p \in dir : \A q \in dir : p <= q}

\* the producers piped when the bridge becomes Active: every producer
\* currently in the directory
CurrentlyKnownProducers(dir) == dir

\* pipe the producers ids into the pipeline, guarded by pipedProducerIds
Pipe(ids) ==
    /\ pipedProducerIds' = pipedProducerIds \cup ids
    /\ pipeCount' = [p \in ProducerIds |->
            pipeCount[p] + (IF p \in ids \ pipedProducerIds THEN 1 ELSE 0)]

\* directory transition 0 -> 1: the Egress Session is created and the bridge
\* enters Provisioning
EgressProvision ==
    /\ bridge' = "Provisioning"
    /\ provisions' = provisions + 1
    /\ egressSessions' = egressSessions \cup {provisions + 1}
    /\ UNCHANGED <<pipedProducerIds, pipeCount, teardowns, transcoderHandle, spawned>>

\* directory transition to 0: the transcoder is terminated, the rendezvous
\* transports are closed, pipedProducerIds is cleared, the bridge is Idle; a
\* provisioning still in flight is dropped with its session
EgressTeardown ==
    /\ bridge' = "Idle"
    /\ teardowns' = teardowns + 1
    /\ egressSessions' = {}
    /\ pipedProducerIds' = {}
    /\ transcoderHandle' = None
    /\ UNCHANGED <<pipeCount, provisions, spawned>>

\* the bridge's reaction to the directory change of a server step
EgressReact ==
    IF ShouldProvision(producers, producers') THEN EgressProvision
    ELSE IF ShouldTeardown(producers, producers') THEN EgressTeardown
    ELSE IF bridge = "Active" /\ producers' \ producers # {}
    THEN /\ Pipe(producers' \ producers)
         /\ UNCHANGED <<bridge, egressSessions, provisions, teardowns,
                         transcoderHandle, spawned>>
    ELSE UNCHANGED evars

\* the provisioning completes: both rendezvous transports exist and the
\* transcoder process has been spawned; the bridge becomes Active and pipes
\* every producer currently in the directory
ProvisionDone ==
    /\ bridge = "Provisioning"
    /\ bridge' = "Active"
    /\ spawned' = spawned + 1
    /\ transcoderHandle' = spawned + 1
    /\ Pipe(CurrentlyKnownProducers(producers))
    /\ UNCHANGED <<egressSessions, provisions, teardowns>>

\* ---------------------------------------------------------------- page

\* the events the page requests through request()
RequestEvents == {"createWebRtcTransport", "consume"}

\* the events the server sends unasked
NotificationEvents == {"new-producer", "consumer-closed"}

\* const { event, data, requestId } / { event, data, id: requestId } of
\* onmessage: the page reads the correlation id under its envelope key
ClientReadId(m) == Field(m, envelopeKey)

\* resolve or reject called on the promise of request r
Settle(r, how) ==
    [promises EXCEPT ![r] = [state |-> IF @.state = "pending" THEN how ELSE @.state,
                             settled |-> @.settled + 1]]

\* request(): a new promise under a fresh id; on an open socket the entry
\* and the timeout are set and the envelope is sent, otherwise the entry and
\* the timeout are removed again and the promise is rejected
Request(event) ==
    /\ \E r \in RequestIds :
          /\ promises[r].state = "unused"
          /\ \A k \in 1..(r - 1) : promises[k].state # "unused"
          /\ IF wsState = "OPEN"
             THEN /\ promises' = [promises EXCEPT ![r].state = "pending"]
                  /\ requestQueue' = requestQueue \cup {r}
                  /\ timers' = timers \cup {r}
                  /\ toServer' = toServer \cup {PageEnvelope(event, r)}
             ELSE /\ promises' = [promises EXCEPT ![r] =
                                      [state |-> "rejected", settled |-> 1]]
                  /\ UNCHANGED <<requestQueue, timers, toServer>>
    /\ UNCHANGED <<wsState, toClient, dispatch>>

\* if (requestId && requestQueue.current.has(requestId))
PendingMatch(requestId) == requestId # None /\ requestId \in requestQueue

\* a continuation that leaves the timeout armed
TimeoutKept(r) == timers

\* clearTimeout(timeout) in the continuation stored in requestQueue
ClearTimeout(r) == timers \ {r}

\* an onmessage without the return after the continuation
RoutesWithoutReturn(matched) ==
    IF matched THEN {"continuation", "switch"} ELSE {"switch"}

\* where onmessage takes a message: the continuation and return, or the switch
Routes(matched) == IF matched THEN {"continuation"} ELSE {"switch"}

\* socket.onmessage
OnMessage(m) ==
    /\ wsState = "OPEN"
    /\ m \in toClient
    /\ toClient' = toClient \ {m}
    /\ LET requestId == ClientReadId(m)
           matched == PendingMatch(requestId)
       IN /\ dispatch' = [routes |-> Routes(matched), event |-> m.event,
                          requestId |-> requestId]
          /\ IF matched
             THEN /\ timers' = ClearTimeout(requestId)
                  /\ promises' = Settle(requestId, "resolved")
                  /\ requestQueue' = requestQueue \ {requestId}
             ELSE UNCHANGED <<timers, promises, requestQueue>>
    /\ UNCHANGED <<wsState, toServer>>

\* the setTimeout callback of request r
Timeout(r) ==
    /\ r \in timers
    /\ timers' = timers \ {r}
    /\ requestQueue' = requestQueue \ {r}
    /\ promises' = Settle(r, "rejected")
    /\ UNCHANGED <<wsState, toServer, toClient, dispatch>>

\* an onclose that cancels the timeouts of the pending requests
PageCloseClearsTimers ==
    /\ wsState = "OPEN"
    /\ wsState' = "CLOSED"
    /\ toServer' = {}
    /\ toClient' = {}
    /\ timers' = {}
    /\ UNCHANGED <<requestQueue, promises, dispatch>>

\* socket.onclose: refs are cleared, requestQueue is left as it is; nothing
\* in flight is delivered any more
PageClose ==
    /\ wsState = "OPEN"
    /\ wsState' = "CLOSED"
    /\ toServer' = {}
    /\ toClient' = {}
    /\ UNCHANGED <<requestQueue, timers, promises, dispatch>>

\* the server answers an envelope through the send closure (event = the
\* reply's event name) or through the catch block (event = "error"): both
\* echo the requestId parsed from the envelope
ServerReplies(envelope, event) ==
    /\ wsState = "OPEN"
    /\ envelope \in toServer
    /\ toServer' = toServer \ {envelope}
    /\ toClient' = toClient \cup {Msg(1, event, <<>>, ParsedRequestId(envelope))}
    /\ UNCHANGED <<wsState, requestQueue, timers, promises, dispatch>>

\* the server returns from a consume of the requester's own producer
\* without sending anything
ServerSkips(envelope) ==
    /\ envelope \in toServer
    /\ envelope.event = "consume"
    /\ toServer' = toServer \ {envelope}
    /\ UNCHANGED <<wsState, requestQueue, timers, promises, toClient, dispatch>>

\* a notification: sent without a requestId
ServerNotifies(event) ==
    /\ wsState = "OPEN"
    /\ toClient' = toClient \cup {Msg(1, event, <<>>, None)}
    /\ UNCHANGED <<wsState, requestQueue, timers, promises, toServer, dispatch>>

\* ---------------------------------------------------------------- page setup

\* consumeNewProducer sends a consume request: the refs are set and the
\* producer is not one of the page's own
WillConsume(dev, recv, own, producerId) == dev /\ recv /\ producerId \notin own

\* index of the first pending producer from i on for which consumeNewProducer
\* sends a request, 0 when there is none (for the others it returns at once)
RECURSIVE NextToConsume(_, _, _, _, _)
NextToConsume(i, pending, dev, recv, own) ==
    IF i > Len(pending) THEN 0
    ELSE IF WillConsume(dev, recv, own, pending[i]) THEN i
    ELSE NextToConsume(i + 1, pending, dev, recv, own)

\* the for-of loop over pendingProducers from index i on, up to its next
\* await of a consume request, or to its end and pendingProducers = []
ConsumePending(i, dev, recv, own) ==
    LET j == NextToConsume(i, pendingProducers, dev, recv, own)
    IN IF j = 0
       THEN /\ setupPc' = "done"
            /\ pendingProducers' = <<>>
            /\ loopIndex' = 0
            /\ UNCHANGED consumeRequested
       ELSE /\ setupPc' = "consume"
            /\ loopIndex' = j
            /\ consumeRequested' =
                  [consumeRequested EXCEPT ![pendingProducers[j]] = @ + 1]
            /\ UNCHANGED pendingProducers

\* the localStream that the handlers of the socket see: they were created in
\* the render whose connectSocket opened the socket
HandlerSeesCurrentStream == localStream
HandlerSees == handlerLocalStream

\* the start button, rendered while localStream is null: startStreaming runs
\* up to its await of getUserMedia; connectSocket and the handlers it will
\* install belong to this render
StartStreaming ==
    /\ mediaPc = "button"
    /\ ~localStream
    /\ mediaPc' = "getUserMedia"
    /\ handlerLocalStream' = localStream
    /\ UNCHANGED <<localStream, effectDeps, producing, produced>>
    /\ UNCHANGED <<wsState, pvars>>

\* getUserMedia settles: setLocalStream(stream) and connectSocket(), whose
\* socket opens; or the catch block alerts and the button stays
GetUserMediaSettled(ok) ==
    /\ mediaPc = "getUserMedia"
    /\ IF ok
       THEN /\ localStream' = TRUE
            /\ mediaPc' = "connected"
            /\ wsState' = "OPEN"
       ELSE /\ mediaPc' = "button"
            /\ UNCHANGED <<localStream, wsState>>
    /\ UNCHANGED <<handlerLocalStream, effectDeps, producing, produced>>
    /\ UNCHANGED pvars

\* the effect on [localStream, isDeviceReady] runs after a render in which
\* one of the two changed: produceMedia when both are set and there is a
\* send transport
ProduceEffect ==
    /\ effectDeps # <<localStream, isDeviceReady>>
    /\ effectDeps' = <<localStream, isDeviceReady>>
    /\ IF localStream /\ isDeviceReady /\ sendTransportRef
       THEN /\ producing' = producing \cup {"effect"}
            /\ produced' = [produced EXCEPT !["effect"] = @ + 1]
       ELSE UNCHANGED <<producing, produced>>
    /\ UNCHANGED <<localStream, handlerLocalStream, mediaPc>>
    /\ UNCHANGED <<wsState, pvars>>

\* onmessage, case 'routerRtpCapabilities': handleRouterRtpCapabilities
\* starts and awaits device.load
RouterRtpCapabilities ==
    /\ wsState = "OPEN"
    /\ setupPc = "idle"
    /\ setupPc' = "load"
    /\ UNCHANGED <<wsState, deviceRef, sendTransportRef, recvTransportRef,
                   isDeviceReady, producersRef, pendingProducers, loopIndex,
                   announcedIds, queuedEver, consumeRequested>>

\* device.load settles: deviceRef is set and createSendTransport awaits its
\* request, or the catch block of handleRouterRtpCapabilities ends the setup
DeviceLoaded(ok) ==
    /\ setupPc = "load"
    /\ IF ok
       THEN deviceRef' = TRUE /\ setupPc' = "send"
       ELSE setupPc' = "failed" /\ UNCHANGED deviceRef
    /\ UNCHANGED <<wsState, sendTransportRef, recvTransportRef, isDeviceReady,
                   producersRef, pendingProducers, loopIndex, announcedIds,
                   queuedEver, consumeRequested>>

\* the createWebRtcTransport request of createSendTransport settles: the
\* ref is set when it resolved with usable parameters and deviceRef is set;
\* otherwise its own catch block logs; createRecvTransport then awaits
SendTransportSettled(ok) ==
    /\ setupPc = "send"
    /\ sendTransportRef' = (sendTransportRef \/ (ok /\ deviceRef))
    /\ setupPc' = "recv"
    /\ UNCHANGED <<wsState, deviceRef, recvTransportRef, isDeviceReady,
                   producersRef, pendingProducers, loopIndex, announcedIds,
                   queuedEver, consumeRequested>>

\* setIsDeviceReady(true) after both awaits returned
ReadyAfterTransports(send, recv) == TRUE

\* the createWebRtcTransport request of createRecvTransport settles; then
\* setIsDeviceReady(true), produceMedia when there is a send transport and a
\* local stream, and the loop over pendingProducers
RecvTransportSettled(ok, stream) ==
    /\ setupPc = "recv"
    /\ LET recv == recvTransportRef \/ (ok /\ deviceRef)
       IN /\ recvTransportRef' = recv
          /\ isDeviceReady' = ReadyAfterTransports(sendTransportRef, recv)
          /\ IF sendTransportRef /\ stream
             THEN /\ setupPc' = "produce"
                  /\ producing' = producing \cup {"handler"}
                  /\ produced' = [produced EXCEPT !["handler"] = @ + 1]
                  /\ UNCHANGED <<pendingProducers, loopIndex, consumeRequested>>
             ELSE /\ ConsumePending(1, deviceRef, recv, producersRef)
                  /\ UNCHANGED <<producing, produced>>
    /\ UNCHANGED <<localStream, handlerLocalStream, mediaPc, effectDeps>>
    /\ UNCHANGED <<wsState, deviceRef, sendTransportRef, producersRef,
                   announcedIds, queuedEver>>

\* the produceMedia of a caller returns: the producers it created are in
\* producersRef; the one awaited by handleRouterRtpCapabilities is followed
\* by the loop over pendingProducers
ProduceMediaDone(caller, own) ==
    /\ caller \in producing
    /\ own \cap announcedIds = {}
    /\ own \cap producersRef = {}
    /\ producing' = producing \ {caller}
    /\ producersRef' = producersRef \cup own
    /\ IF caller = "handler"
       THEN ConsumePending(1, deviceRef, recvTransportRef, producersRef \cup own)
       ELSE UNCHANGED <<setupPc, pendingProducers, loopIndex, consumeRequested>>
    /\ UNCHANGED <<localStream, handlerLocalStream, mediaPc, effectDeps, produced>>
    /\ UNCHANGED <<wsState, deviceRef, sendTransportRef, recvTransportRef,
                   isDeviceReady, announcedIds, queuedEver>>

\* the awaited consumeNewProducer of the loop returns: next iteration
ConsumeSettled ==
    /\ setupPc = "consume"
    /\ ConsumePending(loopIndex + 1, deviceRef, recvTransportRef, producersRef)
    /\ UNCHANGED <<wsState, deviceRef, sendTransportRef, recvTransportRef,
                   isDeviceReady, producersRef, announcedIds, queuedEver>>

\* onmessage, case 'new-producer': consume at once when device and receive
\* transport are set, else push on pendingProducers
NewProducerEvent(producerId) ==
    /\ wsState = "OPEN"
    /\ producerId \notin announcedIds
    /\ producerId \notin producersRef
    /\ announcedIds' = announcedIds \cup {producerId}
    /\ IF deviceRef /\ recvTransportRef
       THEN /\ consumeRequested' =
                  IF WillConsume(deviceRef, recvTransportRef, producersRef, producerId)
                  THEN [consumeRequested EXCEPT ![producerId] = @ + 1]
                  ELSE consumeRequested
            /\ UNCHANGED <<pendingProducers, queuedEver>>
       ELSE /\ pendingProducers' = Append(pendingProducers, producerId)
            /\ queuedEver' = queuedEver \cup {producerId}
            /\ UNCHANGED consumeRequested
    /\ UNCHANGED <<wsState, setupPc, deviceRef, sendTransportRef, recvTransportRef,
                   isDeviceReady, producersRef, loopIndex>>

\* socket.onclose: isDeviceReady false, the three refs null
SetupClose ==
    /\ wsState = "OPEN"
    /\ wsState' = "CLOSED"
    /\ isDeviceReady' = FALSE
    /\ deviceRef' = FALSE
    /\ sendTransportRef' = FALSE
    /\ recvTransportRef' = FALSE
    /\ UNCHANGED <<setupPc, producersRef, pendingProducers, loopIndex,
                   announcedIds, queuedEver, consumeRequested>>

\* ---------------------------------------------------------------- remote streams

\* the events of the server that the remoteStreams state of a page depends on
StreamEvents == {"consume", "consumer-closed", "producer-closed"}

\* the messages of a set in the order in which they are sent
RECURSIVE InOrder(_)
InOrder(ms) ==
    IF ms = {} THEN <<>>
    ELSE LET m == CHOOSE x \in ms : TRUE IN <<m>> \o InOrder(ms \ {m})

\* the WebSocket carries what the step sent on a socket to its page, in order
Deliver ==
    /\ inbox' = [s \in Sockets |-> inbox[s] \o
            InOrder({m \in DOMAIN out' : m.to = s /\ m.event \in StreamEvents})]
    /\ UNCHANGED <<consuming, remoteStreams>>

\* handleConsumerClosed: the first version of the page filters remoteStreams
\* by the consumer's id, the second leaves remoteStreams alone
handleConsumerClosed(streams, consumerId) ==
    IF envelopeKey = "requestId"
    THEN {x \in streams : x.id # consumerId}
    ELSE streams

\* handleProducerClosed (second version): filters by producerId
handleProducerClosed(streams, producerId) ==
    {x \in streams : x.producerId # producerId}

\* the setRemoteStreams updater of handleConsumed: the first version keeps
\* one entry per consumer, the second one entry per producer
AddRemoteStream(streams, c) ==
    IF envelopeKey = "requestId"
    THEN IF \E x \in streams : x.id = c.id THEN streams
         ELSE streams \cup {[id |-> c.id, producerId |-> c.producerId]}
    ELSE IF \E x \in streams : x.producerId = c.producerId THEN streams
         ELSE streams \cup {[id |-> c.producerId, producerId |-> c.producerId]}

\* socket.onmessage of the page of socket s: a message whose correlation id
\* is in the requestQueue resolves its request (a consume reply goes on to
\* handleConsumed, which awaits transport.consume); else the switch
PageReceive(s) ==
    /\ inbox[s] # <<>>
    /\ inbox' = [inbox EXCEPT ![s] = Tail(@)]
    /\ LET m == Head(inbox[s])
       IN IF ClientReadId(m) # None
          THEN /\ consuming' = [consuming EXCEPT ![s] = @ \cup
                     IF m.event = "consume"
                     THEN {[id |-> m.data[2],
                            producerId |-> engConsumers[m.data[2]].producerId]}
                     ELSE {}]
               /\ UNCHANGED remoteStreams
          ELSE /\ remoteStreams' = [remoteStreams EXCEPT ![s] =
                     IF m.event = "consumer-closed"
                     THEN handleConsumerClosed(@, m.data[2])
                     ELSE IF m.event = "producer-closed"
                     THEN handleProducerClosed(@, m.data[2])
                     ELSE @]
               /\ UNCHANGED consuming

\* transport.consume of handleConsumed resolves on the page of socket s:
\* consumersRef is set and the stream is added to remoteStreams
ConsumerReady(s, c) ==
    /\ c \in consuming[s]
    /\ consuming' = [consuming EXCEPT ![s] = @ \ {c}]
    /\ remoteStreams' = [remoteStreams EXCEPT ![s] = AddRemoteStream(@, c)]
    /\ UNCHANGED inbox

\* ---------------------------------------------------------------- watch page

\* if (retryCount < 10), on the retryCount the running initPlayer sees
ShouldRetry(seen) == seen < MaxRetries

\* the timer of the mount effect expires: the initPlayer of the first render
\* runs up to its await of checkStreamAvailability
MountTimeout ==
    /\ watchPc = "mount"
    /\ watchPc' = "check"
    /\ UNCHANGED <<streamStatus, retryCount, initPlayerRetryCount, hlsRef, retries>>

\* checkStreamAvailability settles. Failed: 'no-stream' and a retry timer, or
\* 'error' when the retryCount of the closure is not below the limit.
\* Succeeded: setRetryCount(0), 'ready', and the player is created
CheckSettled(ok) ==
    /\ watchPc = "check"
    /\ IF ok
       THEN /\ retryCount' = 0
            /\ streamStatus' = "ready"
            /\ hlsRef' = TRUE
            /\ watchPc' = "idle"
            /\ retries' = 0
       ELSE IF ShouldRetry(initPlayerRetryCount)
       THEN /\ retries < MaxWatchRetries
            /\ streamStatus' = "no-stream"
            /\ watchPc' = "timer"
            /\ retries' = retries + 1
            /\ UNCHANGED <<retryCount, hlsRef>>
       ELSE /\ streamStatus' = "error"
            /\ watchPc' = "idle"
            /\ UNCHANGED <<retryCount, hlsRef, retries>>
    /\ UNCHANGED initPlayerRetryCount

\* the retry timer expires: setRetryCount(prev => prev + 1) and the same
\* initPlayer runs again
RetryTimer ==
    /\ watchPc = "timer"
    /\ retryCount' = retryCount + 1
    /\ watchPc' = "check"
    /\ UNCHANGED <<streamStatus, initPlayerRetryCount, hlsRef, retries>>

\* Hls.Events.MANIFEST_PARSED: 'playing'
ManifestParsed ==
    /\ watchPc = "idle" /\ hlsRef
    /\ streamStatus = "ready"
    /\ streamStatus' = "playing"
    /\ UNCHANGED <<retryCount, initPlayerRetryCount, watchPc, hlsRef, retries>>

\* Hls.Events.ERROR with data.fatal, from the player of an earlier
\* successful check: 'error'; the player is destroyed unless it is a
\* network or media error
PlayerError(recoverable) ==
    /\ hlsRef
    /\ streamStatus' = "error"
    /\ hlsRef' = recoverable
    /\ UNCHANGED <<retryCount, initPlayerRetryCount, watchPc, retries>>

\* handleRetry, from the button shown while streamStatus is 'error': the
\* initPlayer of that render runs, with that render's retryCount
HandleRetry ==
    /\ watchPc = "idle"
    /\ streamStatus = "error"
    /\ streamStatus' = "loading"
    /\ retryCount' = 0
    /\ initPlayerRetryCount' = retryCount
    /\ watchPc' = "check"
    /\ retries' = 0
    /\ UNCHANGED hlsRef

\* ---------------------------------------------------------------- specification

\* a step of the running server: the page model stands still
ServerStep == alive /\ UNCHANGED <<alive, cvars, pvars, fvars, evars, rvars, wvars, mvars>>

\* a step of the running server that may end the process
LastStep == alive /\ UNCHANGED <<cvars, pvars, fvars, evars, rvars, wvars, mvars>>

\* a step of the page model: the server state stands still
PageStep == UNCHANGED <<svars, envelopeKey, pvars, fvars, evars, rvars, wvars, mvars>>

Next ==
    \/ ServerStep /\ \E s \in CoreSockets, p \in CorePeerIds : Connection(s, p)
    \/ ServerStep /\ \E s \in Sockets : GetRouterRtpCapabilities(s)
    \/ ServerStep /\ \E s \in Sockets : CreateWebRtcTransport(s)
    \/ ServerStep /\ \E s \in Sockets, t \in TransportIds :
          ConnectWebRtcTransport(s, t)
    \/ ServerStep /\ \E s \in Sockets, t \in TransportIds : Produce(s, t)
    \/ ServerStep /\
          \E s \in Sockets, t \in TransportIds, p \in ProducerIds, ok \in BOOLEAN :
              Consume(s, t, p, ok)
    \/ ServerStep /\ \E s \in Sockets, c \in ConsumerIds : ResumeConsumer(s, c)
    \/ ServerStep /\ \E h \in handlers : CreateWebRtcTransportResolved(h)
    \/ ServerStep /\ \E h \in handlers : ConnectWebRtcTransportResolved(h)
    \/ ServerStep /\ \E h \in handlers : ProduceResolved(h)
    \/ ServerStep /\ \E h \in handlers : ConsumeResolved(h)
    \/ ServerStep /\ \E h \in handlers : ResumeConsumerResolved(h)
    \/ ServerStep /\ \E h \in handlers : EngineRejected(h)
    \/ ServerStep /\ \E s \in Sockets : Close(s)
    \/ ServerStep /\ \E c \in ConsumerIds : ProducerClose(c)
    \/ ServerStep /\ \E s \in Sockets : UnknownEvent(s)
    \/ LastStep /\ \E s \in Sockets : Malformed(s)
    \/ LastStep /\ WorkerDied

Spec == Init /\ [][Next]_vars

SpecIdEnvelope == InitIdEnvelope /\ [][Next]_vars

NextClient ==
    \/ PageStep /\ \E e \in RequestEvents : Request(e)
    \/ PageStep /\ \E m \in toClient : OnMessage(m)
    \/ PageStep /\ \E r \in RequestIds : Timeout(r)
    \/ PageStep /\ PageClose
    \/ PageStep /\ \E envelope \in toServer :
          \E e \in {envelope.event, "error"} : ServerReplies(envelope, e)
    \/ PageStep /\ \E envelope \in toServer : ServerSkips(envelope)
    \/ PageStep /\ \E e \in NotificationEvents : ServerNotifies(e)

SpecClient == InitClient /\ [][NextClient]_vars

\* a step of the page's setup: the server and the request bookkeeping stand still
SetupStep ==
    UNCHANGED <<svars, envelopeKey, requestQueue, timers, promises, toServer,
                toClient, dispatch, fvars, evars, rvars, wvars>>

NextSetup ==
    \/ SetupStep /\ StartStreaming
    \/ SetupStep /\ \E ok \in BOOLEAN : GetUserMediaSettled(ok)
    \/ SetupStep /\ ProduceEffect
    \/ SetupStep /\ RouterRtpCapabilities /\ UNCHANGED mvars
    \/ SetupStep /\ (\E ok \in BOOLEAN : DeviceLoaded(ok)) /\ UNCHANGED mvars
    \/ SetupStep /\ (\E ok \in BOOLEAN : SendTransportSettled(ok)) /\ UNCHANGED mvars
    \/ SetupStep /\ \E ok \in BOOLEAN : RecvTransportSettled(ok, HandlerSees)
    \/ SetupStep /\ \E caller \in Callers, own \in SUBSET ProducerIds :
          ProduceMediaDone(caller, own)
    \/ SetupStep /\ ConsumeSettled /\ UNCHANGED mvars
    \/ SetupStep /\ (\E p \in ProducerIds : NewProducerEvent(p)) /\ UNCHANGED mvars
    \/ SetupStep /\ SetupClose /\ UNCHANGED mvars

SpecSetup == InitSetup /\ [][NextSetup]_vars

\* a step of the server in which the announcements are counted
FanoutStep == alive /\ UNCHANGED <<alive, cvars, pvars, evars, rvars, wvars, mvars>>

\* the new-producer events the step sent are added to the count of each
\* socket; a producer the step inserted was made by the socket of its handler
Announce ==
    /\ announced' = [s \in Sockets |-> [p \in ProducerIds |->
            announced[s][p] + CountIn(out', NewProducer(s, p))]]
    /\ producedBy' = [p \in ProducerIds |->
            IF p \in producers' \ producers THEN last'.socket ELSE producedBy[p]]

\* up to MaxFanoutSockets sockets connect and close; the sockets of
\* CoreSockets create transports and send produce requests
NextFanout ==
    \/ FanoutStep /\ (\E s \in Sockets, p \in PeerIds : Connection(s, p)) /\ Announce
    \/ FanoutStep /\ (\E s \in CoreSockets : CreateWebRtcTransport(s)) /\ Announce
    \/ FanoutStep /\ (\E h \in handlers : CreateWebRtcTransportResolved(h)) /\ Announce
    \/ FanoutStep /\ (\E s \in CoreSockets, t \in TransportIds : Produce(s, t)) /\ Announce
    \/ FanoutStep /\ (\E h \in handlers : ProduceResolved(h)) /\ Announce
    \/ FanoutStep /\ (\E h \in handlers : EngineRejected(h)) /\ Announce
    \/ FanoutStep /\ (\E s \in Sockets : Closing(s)) /\ Announce
    \/ FanoutStep /\ (\E s \in Sockets : Close(s)) /\ Announce

SpecFanout == Init /\ [][NextFanout]_vars

\* a step of the server to which the egress bridge reacts
EgressStep == alive /\ UNCHANGED <<alive, cvars, pvars, fvars, rvars, wvars, mvars>>

\* the sockets of CoreSockets connect, produce and close; the bridge follows
\* the directory
NextEgress ==
    \/ EgressStep /\ (\E s \in CoreSockets, p \in CorePeerIds : Connection(s, p)) /\ EgressReact
    \/ EgressStep /\ (\E s \in CoreSockets : CreateWebRtcTransport(s)) /\ EgressReact
    \/ EgressStep /\ (\E h \in handlers : CreateWebRtcTransportResolved(h)) /\ EgressReact
    \/ EgressStep /\ (\E s \in CoreSockets, t \in TransportIds : Produce(s, t)) /\ EgressReact
    \/ EgressStep /\ (\E h \in handlers : ProduceResolved(h)) /\ EgressReact
    \/ EgressStep /\ (\E s \in CoreSockets : Close(s)) /\ EgressReact
    \/ EgressStep /\ ProvisionDone /\ UNCHANGED svars

SpecEgress == Init /\ [][NextEgress]_vars

\* a step of the server whose messages travel to the pages
StreamsStep == alive /\ UNCHANGED <<alive, cvars, pvars, fvars, evars, wvars, mvars>>

\* a step of a page that shows remote streams
StreamsPageStep == UNCHANGED <<svars, cvars, pvars, fvars, evars, wvars, mvars>>

\* the sockets of CoreSockets connect, produce, consume and close; their
\* pages follow the consume replies and the consumer-closed events
NextStreams ==
    \/ StreamsStep /\ (\E s \in CoreSockets, p \in CorePeerIds : Connection(s, p)) /\ Deliver
    \/ StreamsStep /\ (\E s \in CoreSockets : CreateWebRtcTransport(s)) /\ Deliver
    \/ StreamsStep /\ (\E h \in handlers : CreateWebRtcTransportResolved(h)) /\ Deliver
    \/ StreamsStep /\ (\E s \in CoreSockets, t \in TransportIds : Produce(s, t)) /\ Deliver
    \/ StreamsStep /\ (\E h \in handlers : ProduceResolved(h)) /\ Deliver
    \/ StreamsStep /\
          (\E s \in CoreSockets, t \in TransportIds, p \in ProducerIds :
              Consume(s, t, p, TRUE)) /\ Deliver
    \/ StreamsStep /\ (\E h \in handlers : ConsumeResolved(h)) /\ Deliver
    \/ StreamsStep /\ (\E s \in CoreSockets : Close(s)) /\ Deliver
    \/ StreamsStep /\ (\E c \in ConsumerIds : ProducerClose(c)) /\ Deliver
    \/ StreamsPageStep /\ \E s \in CoreSockets : PageReceive(s)
    \/ StreamsPageStep /\ \E s \in CoreSockets : \E c \in consuming[s] : ConsumerReady(s, c)

SpecStreams == InitClient /\ [][NextStreams]_vars

\* the WebSocket delivers every message, transport.consume settles, and the
\* engine tells every consumer of a closed producer
SpecStreamsFair ==
    /\ SpecStreams
    /\ \A s \in CoreSockets : WF_vars(StreamsPageStep /\ PageReceive(s))
    /\ \A s \in CoreSockets :
          WF_vars(StreamsPageStep /\ \E c \in consuming[s] : ConsumerReady(s, c))
    /\ \A c \in ConsumerIds : WF_vars(StreamsStep /\ ProducerClose(c) /\ Deliver)

\* a step of the watch page
WatchStep == UNCHANGED <<svars, cvars, pvars, fvars, evars, rvars, mvars>>

NextWatch ==
    \/ WatchStep /\ MountTimeout
    \/ WatchStep /\ \E ok \in BOOLEAN : CheckSettled(ok)
    \/ WatchStep /\ RetryTimer
    \/ WatchStep /\ ManifestParsed
    \/ WatchStep /\ \E recoverable \in BOOLEAN : PlayerError(recoverable)
    \/ WatchStep /\ HandleRetry

SpecWatch == Init /\ [][NextWatch]_vars

\* the browser runs the callback of every armed setTimeout when it expires
SpecClientFair ==
    SpecClient /\ \A r \in RequestIds : WF_vars(PageStep /\ Timeout(r))

\* ---------------------------------------------------------------- properties

\* the producer ids of the Peer Sessions stored in the peers registry
RegisteredProducerIds ==
    UNION {peerState[peers[p]].producers : p \in {q \in PeerIds : peers[q] # None}}

\* no handler is suspended on an engine call
Quiescent == handlers = {}

MessageOps ==
    {"getRouterRtpCapabilities", "createWebRtcTransport", "connectWebRtcTransport",
     "produce", "consume", "resume-consumer"}

\* C1: at every quiescent point the key set of the global producers map equals
\* the union of the producer-id sets of the Peer Sessions in the registry.
C1_DirectoryEqualsRegisteredProducers ==
    Quiescent => producers = RegisteredProducerIds

\* C2: no socket is sent a new-producer notification (by a produce broadcast
\* or by the connection backfill) for a producer held in its own Peer Session.
C2_NoNotificationOfOwnProducer ==
    \A m \in DOMAIN out :
        m.event = "new-producer" => m.data[2] \notin peerState[m.to].producers

\* C3: the connection handler sends the connecting socket exactly one
\* new-producer notification for each producer in the directory that its own
\* Peer Session does not hold, none for a producer it holds, and nothing else.
C3_BackfillExactlyOnce ==
    last.op = "connection" =>
        /\ \A p \in ProducerIds :
              Count(NewProducer(last.socket, p)) =
                 IF p \in producers /\ p \notin peerState[last.socket].producers
                 THEN 1 ELSE 0
        /\ \A m \in DOMAIN out : m.to = last.socket /\ m.event = "new-producer"

\* C3 witness: a socket has connected while the directory held a producer
\* and has been sent its notification.
C3_Witness ==
    /\ last.op = "connection"
    /\ \E p \in producers : Count(NewProducer(last.socket, p)) = 1

\* C4: a connection with a peerId that is already registered leaves the
\* record stored under that peerId in place.
C4_DuplicateConnectionKeepsSession ==
    [][\A s \in Sockets, p \in PeerIds :
          (Connection(s, p) /\ peers[p] # None) => peers'[p] = peers[p]]_vars

\* C5: every open socket has, under its peerId, the Peer Session created by
\* its own connection, for as long as it is open.
C5_OneSessionPerOpenSocket ==
    \A s \in Sockets : readyState[s] = "OPEN" => peers[sockPeerId[s]] = s

\* C6: the close of a socket removes from the directory exactly the producer
\* ids of that socket's Peer Session, all of which were in it, and no other
\* step (in particular no handler running after the close) removes an entry.
C6_CloseRemovesExactlyOwnProducers ==
    [][/\ \A s \in Sockets :
             Close(s) => /\ peerState[s].producers \subseteq producers
                         /\ producers' = producers \ peerState[s].producers
       /\ (~ \E s \in Sockets : Close(s)) => producers \subseteq producers']_vars

\* C6 witness: a handler of a socket finished after that socket closed, and
\* the close had removed a producer of its Peer Session.
C6_Witness ==
    /\ last.op \in {"resolved", "rejected"}
    /\ readyState[last.socket] = "CLOSED"
    /\ \E p \in peerState[last.socket].producers :
          engProducers[p].closed /\ p \notin producers

\* handlers in flight for the peer of socket s
InFlightFor(s) == {h \in handlers : h.socket = s \/ h.peerState = s}

\* C7: once a socket has closed and no handler is in flight for its peer,
\* every transport attached to its Peer Session is closed and no producer of
\* that session is in the directory.
C7_ClosedPeerLeavesNothing ==
    \A s \in Sockets :
        (readyState[s] = "CLOSED" /\ InFlightFor(s) = {}) =>
            /\ \A t \in peerState[s].transports : engTransports[t].closed
            /\ peerState[s].producers \cap producers = {}

\* C8: the step that inserts a producer into the directory also issues its
\* new-producer notification to every other open socket, so no step of any
\* handler lies between the insertion and the broadcast.
C8_InsertAndBroadcastAtomic ==
    [][\A p \in producers' \ producers :
          \A c \in Sockets :
              (c # last'.socket /\ readyState[c] = "OPEN") =>
                  Count(NewProducer(c, p))' = 1]_vars

\* C8 witness: a produce handler has just inserted a producer and another
\* open socket was sent its notification.
C8_Witness ==
    /\ last.op = "resolved"
    /\ \E p \in producers, c \in Sockets :
          /\ c # last.socket
          /\ Count(NewProducer(c, p)) = 1
          /\ \E h \in RequestIds \cup {None} :
                 Count(Msg(last.socket, "produce", <<"id", p>>, h)) = 1

\* C9 as stated: when the handler of a message starts, no handler of an
\* earlier message of the same socket is still suspended.
C9_OneHandlerPerPeerAtATime ==
    last.op \in MessageOps =>
        \A h \in handlers : h.socket = last.socket => h.id = last.id

EngineEvents ==
    {"createWebRtcTransport", "connectWebRtcTransport", "produce", "consume",
     "resume-consumer"}

\* C9 amended: a handler is in flight only while suspended on the engine call
\* of a request whose precondition checks passed; such handlers of one socket
\* may be in flight together.
C9_SuspendedOnlyOnEngineCall ==
    \A h \in handlers :
        /\ h.event \in EngineEvents
        /\ h.peerState # None
        /\ h.event \in {"connectWebRtcTransport", "produce", "consume"} =>
              h.arg \in peerState[h.peerState].transports
        /\ h.event = "resume-consumer" => h.arg \in peerState[h.peerState].consumers

\* C9 witness: two handlers of the same socket are suspended together.
C9_Witness ==
    \E h \in handlers, g \in handlers : h # g /\ h.socket = g.socket

\* C10: a consume request whose rtpCapabilities cannot consume the named
\* producer ends with an error event to the requester, starts no engine call
\* and leaves every consumers map unchanged.
C10_MismatchedConsumeFailsWithError ==
    (last.op = "consume" /\ last.data[3] = 0) =>
        /\ \E m \in DOMAIN out : m.to = last.socket /\ m.event = "error"
        /\ \A h \in handlers : h.id # last.id

\* the sockets whose Peer Session holds consumer c
ConsumerHolders(c) == {s \in Sockets : c \in peerState[s].consumers}

\* C11: a consumer is created paused and leaves the paused state only in the
\* completion of a resume-consumer request that names it and was sent by the
\* socket whose Peer Session holds it; a resume-consumer naming a consumer
\* that the requester's Peer Session does not hold ends with an error event
\* and starts no engine call.
C11_ResumedOnlyByOwningPeer ==
    [][/\ \A c \in ConsumerIds :
             /\ (c > Len(engConsumers) /\ c <= Len(engConsumers')) =>
                    engConsumers'[c].paused
             /\ (/\ c <= Len(engConsumers)
                 /\ engConsumers[c].paused
                 /\ ~ engConsumers'[c].paused) =>
                    \E h \in handlers :
                        /\ ResumeConsumerResolved(h)
                        /\ h.arg = c
                        /\ h.socket \in ConsumerHolders(c)
       /\ \A s \in Sockets, c \in ConsumerIds :
             (ResumeConsumer(s, c) /\ s \notin ConsumerHolders(c)) =>
                 /\ handlers' = handlers
                 /\ \E m \in DOMAIN out' : m.to = s /\ m.event = "error"]_vars

\* C12: no Peer Session holds a consumer of a producer it holds, and a
\* consume request naming a producer of the requesting socket's Peer Session
\* starts no engine call, so it creates no consumer.
C12_NoConsumerOfOwnProducer ==
    /\ \A s \in Sockets : \A c \in peerState[s].consumers :
           engConsumers[c].producerId \notin peerState[s].producers
    /\ (last.op = "consume" /\ last.data[2] \in peerState[last.socket].producers) =>
           \A h \in handlers : h.id # last.id

\* the requests that name a transport
TransportOps == {"connectWebRtcTransport", "produce", "consume"}

\* C13: a connectWebRtcTransport, produce or consume request naming a
\* transport that the requesting socket's Peer Session does not hold ends
\* with a 'not found' error event to the requester and starts no engine call.
C13_ForeignTransportNotFound ==
    (/\ last.op \in TransportOps
     /\ last.data[1] \notin peerState[last.socket].transports) =>
        /\ \E m \in DOMAIN out :
              /\ m.to = last.socket /\ m.event = "error"
              /\ m.data[1] \in {"Transport not found", "Peer state not found"}
        /\ \A h \in handlers : h.id # last.id

\* the Peer Sessions: one per connected socket
Sessions == {s \in Sockets : readyState[s] = "OPEN"}

\* C14: every transport id is in the transports map of at most one Peer
\* Session, and every producer id in the directory is in the producers map
\* of exactly one Peer Session, which also holds the transport the producer
\* was created on.
C14_OwnershipExclusive ==
    /\ \A t \in TransportIds :
           Cardinality({s \in Sessions : t \in peerState[s].transports}) <= 1
    /\ \A p \in producers :
           /\ Cardinality({s \in Sessions : p \in peerState[s].producers}) = 1
           /\ \A s \in Sessions :
                  p \in peerState[s].producers =>
                      engProducers[p].transport \in peerState[s].transports

\* C15: every reply the server sends, success or error, carries under the
\* key the page reads the correlation id the page put on the request, so
\* that onmessage finds the request's pending continuation.
C15_ReplyCarriesRequestId ==
    [][\A envelope \in toServer : \A e \in {envelope.event, "error"} :
          ServerReplies(envelope, e) =>
              \E m \in toClient' \ toClient :
                  m.event = e /\ ClientReadId(m) = Field(envelope, envelopeKey)]_vars

\* a request whose precondition is missing was just handled: the peer
\* state, or the transport, producer or consumer it names, is not found
MissingPrecondition ==
    /\ last.op \in MessageOps \ {"getRouterRtpCapabilities"}
    /\ \/ PeerStateOf(last.socket) = None
       \/ /\ last.op \in TransportOps
          /\ ~HasTransport(last.socket, last.data[1])
       \/ /\ last.op = "consume"
          /\ last.data[2] \notin producers
       \/ /\ last.op = "resume-consumer"
          /\ last.data[1] \notin peerState[PeerStateOf(last.socket)].consumers

\* C16: a request whose precondition is missing is answered with an error
\* event sent to the requesting socket and tagged with the request's id; it
\* starts no engine call, leaves the peers registry and the producer
\* directory unchanged and leaves the socket open.
C16_MissingPreconditionAnswered ==
    [][MissingPrecondition' =>
          /\ \E m \in DOMAIN out' :
                m.to = last'.socket /\ m.event = "error" /\ m.requestId = last'.id
          /\ handlers' = handlers
          /\ peers' = peers
          /\ producers' = producers
          /\ readyState'[last'.socket] = "OPEN"]_vars

\* C17: a message that is not JSON is answered with an error event to its
\* socket, and afterwards the socket is open and the server still runs.
C17_MalformedReportedAsError ==
    last.op = "malformed" =>
        /\ \E m \in DOMAIN out : m.to = last.socket /\ m.event = "error"
        /\ readyState[last.socket] = "OPEN"
        /\ alive

\* C18: a message with an unknown event name changes no Peer Session, no
\* directory entry, no engine object and no handler, and leaves the socket
\* open and the server running, so later messages are handled.
C18_UnknownEventChangesNothing ==
    [][last'.op = "unknown" =>
          /\ UNCHANGED <<peerState, peers, producers, engTransports, engProducers,
                         engConsumers, handlers, readyState, sockPeerId>>
          /\ readyState'[last'.socket] = "OPEN"
          /\ alive']_vars

\* C18 witness: an unknown event was handled on a socket that has a
\* transport and a handler in flight.
C18_Witness ==
    /\ last.op = "unknown"
    /\ peerState[last.socket].transports # {}
    /\ \E h \in handlers : h.socket = last.socket

\* C19: a message whose id matches a pending request goes to that request's
\* continuation, which resolves it and removes its entry, and is not
\* dispatched through the event switch, whatever its event name.
C19_PendingReplyNotDispatched ==
    [][\A m \in toClient :
          (OnMessage(m) /\ ClientReadId(m) \in requestQueue) =>
              /\ dispatch'.routes = {"continuation"}
              /\ promises'[ClientReadId(m)].state = "resolved"
              /\ ClientReadId(m) \notin requestQueue']_vars

\* C19 witness: an error event that matched a pending request was handed to
\* its continuation.
C19_Witness ==
    /\ dispatch.routes = {"continuation"}
    /\ dispatch.event = "error"
    /\ promises[dispatch.requestId].state = "resolved"

\* C20: resolve or reject is called at most once on every request's promise;
\* a request is in the pending map, with its timeout armed, exactly while
\* its promise is unsettled, so the reply or the timeout that comes second
\* finds no entry and no timer.
C20_CompletedExactlyOnce ==
    \A r \in RequestIds :
        /\ promises[r].settled <= 1
        /\ promises[r].state \in {"resolved", "rejected"} <=> promises[r].settled = 1
        /\ promises[r].state = "pending" <=> r \in requestQueue
        /\ r \in timers <=> r \in requestQueue

\* C20 witness: the reply of a request that had timed out was delivered and
\* went to the event switch, while another request was resolved by its reply.
C20_Witness ==
    /\ dispatch.routes = {"switch"}
    /\ dispatch.requestId # None
    /\ promises[dispatch.requestId] = [state |-> "rejected", settled |-> 1]
    /\ \E r \in RequestIds : promises[r] = [state |-> "resolved", settled |-> 1]

\* C21: every pending request of the page is eventually settled and out of
\* the pending map, whether or not the server replies and whether or not
\* the socket closes meanwhile.
C21_EveryRequestCompletes ==
    \A r \in RequestIds :
        (promises[r].state = "pending") ~>
            (promises[r].state \in {"resolved", "rejected"} /\ r \notin requestQueue)

\* C21 witness: the socket closed with nothing delivered, and a request
\* issued before the close has been rejected by its timeout.
C21_Witness ==
    /\ wsState = "CLOSED"
    /\ dispatch.routes = {}
    /\ requestQueue = {}
    /\ \E r \in RequestIds : promises[r] = [state |-> "rejected", settled |-> 1]

\* C22: a producer announced before device and receive transport were ready
\* is queued, and once the page is Ready and the queue has been cleared
\* exactly one consume request has been sent for it; no producer is ever
\* requested twice.
C22_QueuedProducersConsumedOnce ==
    \A p \in ProducerIds :
        /\ consumeRequested[p] <= 1
        /\ (isDeviceReady /\ setupPc = "done" /\ p \in queuedEver) =>
               consumeRequested[p] = 1

\* C23: isDeviceReady is true only while both the send transport and the
\* receive transport exist.
C23_ReadyOnlyWithBothTransports ==
    isDeviceReady => (sendTransportRef /\ recvTransportRef)

ConsumerClosed(to, consumerId) ==
    Msg(to, "consumer-closed", <<"consumerId", consumerId>>, None)

\* C24: when the engine reports to consumer c that its producer was closed
\* (the producer's owner disconnected), the consumer-closed event naming c is
\* sent once to every open socket whose Peer Session holds c and to no
\* other socket.
C24_ConsumerClosedToHolderOnly ==
    last.op = "producerclose" =>
        \A s \in Sockets :
            Count(ConsumerClosed(s, last.data[1])) =
                IF s \in ConsumerHolders(last.data[1]) /\ readyState[s] = "OPEN"
                THEN 1 ELSE 0

\* C25: when a produce handler completes, the new-producer event is sent
\* once to every open socket other than the producer's, whatever the state
\* of the remaining sockets, and the produce reply is sent to the producer's
\* socket if that is open.
C25_FanoutReachesEveryOpenSocket ==
    [][\A h \in handlers :
          (h.event = "produce" /\ last'.op = "resolved" /\ last'.id = h.id) =>
              /\ \A c \in Sockets \ {h.socket} :
                    readyState[c] = "OPEN" =>
                        CountIn(out', NewProducer(c, Len(engProducers) + 1)) = 1
              /\ readyState[h.socket] = "OPEN" =>
                    CountIn(out', Msg(h.socket, "produce",
                                      <<"id", Len(engProducers) + 1>>,
                                      h.requestId)) = 1]_vars

\* C25 witness: a produce handler has completed while one of the other
\* sockets was closing or closed; a third, open socket was sent the
\* new-producer event and the producer's socket its reply.
C25_Witness ==
    /\ last.op = "resolved"
    /\ \E dead \in Sockets, c \in Sockets, p \in ProducerIds :
          /\ dead # last.socket /\ c # last.socket /\ c # dead
          /\ readyState[dead] \in {"CLOSING", "CLOSED"}
          /\ p = Len(engProducers)
          /\ Count(NewProducer(c, p)) = 1
          /\ \E r \in RequestIds \cup {None} :
                Count(Msg(last.socket, "produce", <<"id", p>>, r)) = 1

\* C30: since it connected a socket has been sent at most one new-producer
\* event per producer id, and an open socket has been sent exactly one for
\* every producer of the directory that another socket's request made.
C30_AnnouncedExactlyOnce ==
    \A s \in Sockets, p \in ProducerIds :
        /\ announced[s][p] <= 1
        /\ (readyState[s] = "OPEN" /\ p \in producers /\ producedBy[p] # s) =>
               announced[s][p] = 1

\* C30 witness: a socket connects while another socket's produce handler is
\* suspended, and its backfill announces a producer of the directory; a
\* socket that was open earlier has that producer from the broadcast.
C30_Witness ==
    /\ last.op = "connection"
    /\ \E h \in handlers : h.event = "produce" /\ h.socket # last.socket
    /\ \E p \in producers, c \in Sockets \ {last.socket} :
          /\ Count(NewProducer(last.socket, p)) = 1
          /\ readyState[c] = "OPEN" /\ announced[c][p] = 1

\* C26: the step in which the worker's 'died' event is handled changes
\* neither the registry nor the directory nor any other record of the
\* server, and no step follows it: no message is handled, no suspended
\* handler is resumed and nothing changes afterwards.
C26_NothingAfterWorkerDied ==
    [][/\ last'.op = "workerdied" =>
              UNCHANGED <<readyState, sockPeerId, peerState, peers, producers,
                          engTransports, engProducers, engConsumers, handlers>>
       /\ last.op = "workerdied" => UNCHANGED svars]_vars

\* C26 witness: the worker died while a socket was open, a producer was in
\* the directory and a handler was suspended on the engine.
C26_Witness ==
    /\ last.op = "workerdied"
    /\ ~alive
    /\ \E s \in Sockets : readyState[s] = "OPEN"
    /\ producers # {}
    /\ handlers # {}

\* C27: at most one Egress Session exists, and one exists exactly while the
\* directory is non-empty.
C27_OneEgressSessionWhileProducers ==
    /\ Cardinality(egressSessions) <= 1
    /\ (egressSessions # {}) <=> (producers # {})

\* C27 witness: a second Egress Session exists after the first was destroyed.
C27_Witness ==
    /\ egressSessions = {2}
    /\ teardowns = 1
    /\ producers # {}

\* C28: a step taking the directory from 0 producers to 1 starts exactly one
\* provisioning cycle and no other step starts one; a step taking it to 0
\* runs exactly one teardown and no other step runs one; the transcoder of
\* a provisioning cycle is a process not used before.
C28_OneProvisioningOneTeardown ==
    [][/\ provisions' = provisions +
              (IF producers = {} /\ producers' # {} THEN 1 ELSE 0)
       /\ teardowns' = teardowns +
              (IF producers # {} /\ producers' = {} THEN 1 ELSE 0)
       /\ (bridge # "Active" /\ bridge' = "Active") =>
              /\ transcoderHandle' \notin 0..spawned
              /\ spawned' = spawned + 1
              /\ spawned' <= provisions']_vars

\* C28 witness: two sockets each made a producer in one provisioning cycle
\* and then closed one after the other (count 1, 2, 1, 0): one teardown.
C28_Witness ==
    /\ last.op = "close"
    /\ producers = {}
    /\ provisions = 1 /\ teardowns = 1 /\ spawned = 1
    /\ \A p \in ProducerIds : pipeCount[p] = 1
    /\ \A s \in CoreSockets :
          readyState[s] = "CLOSED" /\ Cardinality(peerState[s].producers) = 1

\* C29: no producer is piped twice; while the bridge is Active every
\* producer of the directory has been piped once and is in
\* pipedProducerIds; pipedProducerIds is empty when the bridge is Idle.
C29_PipedExactlyOnce ==
    /\ \A p \in ProducerIds : pipeCount[p] <= 1
    /\ bridge = "Active" =>
          \A p \in producers : pipeCount[p] = 1 /\ p \in pipedProducerIds
    /\ bridge = "Idle" => pipedProducerIds = {}

\* C29 witness: a producer was added while the bridge was Active, after the
\* provisioning backfill had piped the first one.
C29_Witness ==
    /\ last.op = "resolved"
    /\ bridge = "Active"
    /\ producers = {1, 2}
    /\ pipedProducerIds = {1, 2}
    /\ \A p \in ProducerIds : pipeCount[p] = 1

\* the number of messages of the last step sent to socket s under request id r
AnswersTo(s, r) ==
    LET ms == {m \in DOMAIN out : m.to = s /\ m.requestId = r}
        RECURSIVE Sum(_)
        Sum(S) == IF S = {} THEN 0
                  ELSE LET m == CHOOSE x \in S : TRUE IN out[m] + Sum(S \ {m})
    IN Sum(ms)

\* C31: a request with a recognised event name on an open socket is either
\* suspended on the engine or answered in the same step by exactly one
\* message carrying its id; when its engine call settles it is answered by
\* exactly one message carrying its id.
C31_EveryRequestAnswered ==
    (last.op \in MessageOps \cup {"resolved", "rejected"} /\
     readyState[last.socket] = "OPEN") =>
        IF \E h \in handlers : h.id = last.id /\ h.socket = last.socket
        THEN AnswersTo(last.socket, last.id) = 0
        ELSE AnswersTo(last.socket, last.id) = 1

\* C32: when onmessage hands an error event to the continuation of a
\* pending request, the promise of that request is rejected, never resolved.
C32_ErrorReplyRejects ==
    (dispatch.event = "error" /\ "continuation" \in dispatch.routes) =>
        promises[dispatch.requestId].state = "rejected"

\* C33: the close handler of a socket leaves the transports, producers and
\* consumers maps of every other socket's Peer Session as they were, with
\* the engine objects in them, and removes from the directory no producer
\* of another socket's Peer Session.
C33_CloseLeavesOtherPeers ==
    [][\A s \in Sockets :
          Close(s) =>
              \A t \in Sockets \ {s} :
                  /\ peerState'[t] = peerState[t]
                  /\ (peerState[t].producers \cap producers) \subseteq producers'
                  /\ \A x \in peerState[t].transports : engTransports'[x] = engTransports[x]
                  /\ \A x \in peerState[t].producers : engProducers'[x] = engProducers[x]
                  /\ \A x \in peerState[t].consumers : engConsumers'[x] = engConsumers[x]]_vars

\* C33 witness: a socket whose session held a producer has closed while
\* another open socket's session holds a transport and a producer that is
\* still in the directory.
C33_Witness ==
    /\ last.op = "close"
    /\ peerState[last.socket].producers # {}
    /\ \E t \in Sockets \ {last.socket} :
          /\ readyState[t] = "OPEN"
          /\ peerState[t].transports # {}
          /\ peerState[t].producers \cap producers # {}

\* C34: the consumers map of an open socket's Peer Session holds no closed
\* consumer, and a resume-consumer request naming a closed consumer starts
\* no engine call.
C34_ConsumersMapHoldsLiveConsumers ==
    /\ \A s \in Sockets :
          readyState[s] = "OPEN" =>
              \A c \in peerState[s].consumers : ~engConsumers[c].closed
    /\ (last.op = "resume-consumer" /\ last.data[1] \in 1..Len(engConsumers) /\
        engConsumers[last.data[1]].closed) =>
           \A h \in handlers : h.id # last.id

\* the page of socket s shows a remote stream for producer p
Shows(s, p) == \E x \in remoteStreams[s] : x.producerId = p

\* the socket that owned producer p has disconnected: its close handler
\* closed the producer
OwnerDisconnected(p) == p \in 1..Len(engProducers) /\ engProducers[p].closed

\* C35: once the owner of a producer has disconnected, every page that shows
\* a remote stream for that producer removes it, for as long as the page's
\* own socket is open.
C35_StreamRemovedAfterOwnerLeaves ==
    \A s \in CoreSockets, p \in ProducerIds :
        (OwnerDisconnected(p) /\ Shows(s, p) /\ readyState[s] = "OPEN") ~>
            (~Shows(s, p) \/ readyState[s] # "OPEN")

\* C36: the watch page schedules at most MaxRetries retries of the
\* availability check in a row: after that many failed checks the next
\* failed check enters 'error' and schedules nothing.
C36_AtMostTenRetries == retries <= MaxRetries

\* C37: within one connection produceMedia goes on to produce the local
\* tracks at most once: the call made by handleRouterRtpCapabilities and the
\* call made by the effect on [localStream, isDeviceReady] never both do.
C37_TracksProducedAtMostOnce ==
    produced["handler"] + produced["effect"] <= 1

\* C37 witness: the setup of a connection has run to its end with a send
\* transport and the local tracks have been produced.
C37_Witness ==
    /\ setupPc = "done"
    /\ produced["handler"] + produced["effect"] = 1
    /\ producing = {}
    /\ producersRef # {}

====
